---- MODULE Spec2Model ----
(***************************************************************************)
(* glad: an arena allocator backed by mmap (glad.h, the revision with      *)
(* alignment-aware arena_alloc / arena_push).                              *)
(*                                                                         *)
(* Memory is modelled at byte granularity.  A chunk pointer is a slot of   *)
(* the address space (0 is the null pointer); the numeric address of a     *)
(* slot follows from ChunkBase.  The bytes of a mapping are kept           *)
(* run-length encoded (a sequence of <<length, value>> runs), so that the  *)
(* real chunk granularity of 4 MiB can be used.                            *)
(***************************************************************************)
EXTENDS Integers, Sequences, FiniteSets, TLC

(* ------------------------------ bounds -------------------------------- *)
MaxChunks == 4      \* address-space slots: mmap fails when all are in use
MaxOps == 3         \* calls made by a client that meets every answer of the system
MaxByteOps == 4     \* calls made by a client that asks for byte alignment only
MaxCarelessOps == 3 \* calls made by a client that also breaks the contract
MaxChunkOps == 3    \* calls made by a client of alloc_chunk and free_chunk
MaxSizeOps == 2     \* calls made by a client that asks for more than a default chunk
PtrBits == 29       \* bits of a ptrdiff_t (64 in the build; the arithmetic is the same)

(* ------------------------- program constants -------------------------- *)
PageSize == 4096
HeaderSize == 24                             \* sizeof(chunk): pointer + 2 ptrdiff_t
DEFAULT_CHUNK_SIZE == (PageSize * 1024) \div 1     \* (4096L*1024L)/(sizeof(char))
ZEROMEM == 1
SOFTFAIL == 16
NULL == 0

\* the value a ptrdiff_t takes when an unsigned sum of that width is stored in it
PTRDIFF_MAX == 2 ^ (PtrBits - 1) - 1
Wrap(x) == ((x + 2 ^ (PtrBits - 1)) % 2 ^ PtrBits) - 2 ^ (PtrBits - 1)

\* sizeof(chunk) + (sizeof(char) * (X)): computed in size_t, stored in a ptrdiff_t
CHUNK_ALLOC_SIZE(X) == Wrap(HeaderSize + (1 * X))

\* (val + size - 1) & -size, for size a power of two: the bits below size are cleared
ROUND_UP(val, size) == ((val + size - 1) \div size) * size

\* a local variable: E is evaluated once and B reads its value
Let(E, B(_)) == CHOOSE out \in {B(r) : r \in {E}} : TRUE

\* flags & bit, for a single-bit mask
HasFlag(flags, bit) == (flags \div bit) % 2 = 1

\* alignment & (alignment - 1) is zero: alignment has at most one bit set
RECURSIVE OneBit(_)
OneBit(x) == IF x = 1 THEN TRUE
             ELSE IF x <= 0 \/ x % 2 = 1 THEN FALSE
             ELSE OneBit(x \div 2)
AndMinusOneIsZero(alignment) == alignment = 0 \/ OneBit(alignment)

\* the kernel maps and unmaps whole pages
PageRound(n) == ((n + PageSize - 1) \div PageSize) * PageSize

(* ------------------------------ inputs -------------------------------- *)
Arenas == {1, 2}
Slots == 1..MaxChunks
Sizes == {1, DEFAULT_CHUNK_SIZE}
Alignments == {1, 16, 2 * PageSize}
FreeFlags == {0, ZEROMEM}
\* a call's flags, and which acquisition made in the call the system refuses (0: none)
\* and how: open("/dev/zero") fails ("nofd") or mmap fails ("nomem")
Call(flags, failAt, kind) == [flags |-> flags, failAt |-> failAt, kind |-> kind]
Calls == {Call(0, 0, "nomem"), Call(ZEROMEM, 0, "nomem"),
          Call(SOFTFAIL, 1, "nomem"), Call(0, 1, "nomem"), Call(0, 1, "nofd"),
          Call(SOFTFAIL, 2, "nomem"), Call(ZEROMEM + SOFTFAIL, 2, "nomem")}
GARBAGE == 0 - 1    \* a byte whose value is unspecified

(* ------------------------- run-length bytes --------------------------- *)
Run(n, v) == IF n > 0 THEN << <<n, v>> >> ELSE << >>

RECURSIVE RunLen(_)
RunLen(d) == IF d = << >> THEN 0 ELSE Head(d)[1] + RunLen(Tail(d))

RECURSIVE RunNorm(_)
RunNorm(d) ==
    IF Len(d) < 2 THEN d
    ELSE IF d[1][2] = d[2][2]
         THEN RunNorm(<< <<d[1][1] + d[2][1], d[1][2]>> >> \o SubSeq(d, 3, Len(d)))
         ELSE <<d[1]>> \o RunNorm(Tail(d))

\* the first n bytes of d
RECURSIVE RunTake(_, _)
RunTake(d, n) ==
    IF n <= 0 \/ d = << >> THEN << >>
    ELSE IF Head(d)[1] <= n THEN <<Head(d)>> \o RunTake(Tail(d), n - Head(d)[1])
    ELSE << <<n, Head(d)[2]>> >>

\* d without its first n bytes
RECURSIVE RunDrop(_, _)
RunDrop(d, n) ==
    IF d = << >> THEN << >>
    ELSE IF n <= 0 THEN d
    ELSE IF Head(d)[1] <= n THEN RunDrop(Tail(d), n - Head(d)[1])
    ELSE << <<Head(d)[1] - n, Head(d)[2]>> >> \o Tail(d)

\* bytes [from, from + n) of d
RunSlice(d, from, n) == RunNorm(RunTake(RunDrop(d, from), n))

\* d with bytes [at, at + RunLen(src)) replaced by src; bytes past the end of d are dropped
RunSplice(d, at, part) == RunNorm(RunTake(d, at) \o part \o RunDrop(d, at + RunLen(part)))
RunPut(d, at, src) == RunSplice(d, at, RunTake(src, RunLen(d) - at))

\* memset(base + at, v, n) and memcpy(base + at, src, n) inside one mapping
MemSet(d, at, v, n) == RunPut(d, at, Run(n, v))
MemCpy(d, at, src, n) == RunPut(d, at, RunTake(src, n))

(* ------------------------------ state --------------------------------- *)
VARIABLES
    mem,      \* slot -> the mapping at that slot: chunk header, bytes after the header
    arena,    \* arena -> [ar_head, ar_tail]
    hwm,      \* highest slot ever mapped
    fault,    \* "none", or how the process ended: "segv", "abort", "hang"
    last,     \* the last call made (buf: whether a buffer was passed) and what it returned
    log,      \* arena -> regions handed out while the arena has only grown; after a
              \* Reset of such an arena, the allocations still to be made again
    hist,     \* arena -> which kinds of call the arena has seen
    nops      \* calls made so far

vars == <<mem, arena, hwm, fault, last, log, hist, nops>>

\* an unmapped slot
NoChunk == [st |-> "unmapped", hdr |-> "ok", ch_next |-> NULL, ch_size |-> 0,
            ch_offset |-> 0, bytes |-> << >>, maplen |-> 0]

NullPtr == <<NULL, 0>>

\* mmap returns page-aligned addresses; a slot is wide enough for any mapping made here
Stride == 16 * DEFAULT_CHUNK_SIZE
\* the longest mapping the address space has room for
MaxMapping == Stride - 2 * PageSize
\* odd slots lie an odd number of pages up: a mapping is aligned to a page, not more
ChunkBase(slot) == slot * Stride + (slot % 2) * PageSize
\* ch_data is the flexible array member right after the header
DataAddr(slot) == ChunkBase(slot) + HeaderSize
PtrAddr(ptr) == DataAddr(ptr[1]) + ptr[2]

\* bytes of the mapping that follow the header
Cap(c) == c.maplen - HeaderSize

\* the pointer can be dereferenced: it designates a live mapping
Mapped(s, ch) == ch \in Slots /\ s.mem[ch].st = "mapped"
\* ... and the header read through it is the one the allocator wrote
Sound(s, ch) == Mapped(s, ch) /\ s.mem[ch].hdr = "ok"

Crash(s, how) == [s EXCEPT !.fault = how]

\* the state the operations thread through: the heap, plus what happened in this call
\* (chunks acquired, chunks released, an access past a mapping, an acquisition that
\* the system refused and alloc_chunk answered with 0)
Enter(m, ar, h) == [mem |-> m, arena |-> ar, hwm |-> h, fault |-> "none",
                    acq |-> << >>, rel |-> << >>, ovf |-> FALSE, ref |-> FALSE]

(* ---------------------------- alloc_chunk ----------------------------- *)
\* where mmap may place a mapping: a slot released earlier, or the next fresh one
Placements(s) == {x \in Slots : s.mem[x].st = "unmapped" /\ x <= s.hwm + 1}
Lowest(S) == CHOOSE x \in S : \A y \in S : x <= y
Placement(s, env) == IF env.pref \in Placements(s) THEN env.pref ELSE Lowest(Placements(s))

\* what open("/dev/zero") and mmap answer for the next acquisition of this call:
\* mmap fails for a length of zero, for a negative one (a huge size_t) and for one
\* that no gap of the address space holds
OsAnswer(s, allocation_size, env) ==
    IF env.failAt = Len(s.acq) + 1 THEN env.kind
    ELSE IF Placements(s) = {} \/ allocation_size <= 0 \/ allocation_size > MaxMapping
         THEN "nomem"
    ELSE "ok"

\* alloc_chunk recording the room of the mapping in ch_size instead of the size asked
alloc_chunk_whole_mapping(s, size, flags, env) ==
    IF s.fault # "none" THEN [s |-> s, ret |-> NULL]
    ELSE IF size = 0 THEN [s |-> s, ret |-> NULL]
    ELSE LET allocation_size == CHUNK_ALLOC_SIZE(size)
             os == OsAnswer(s, allocation_size, env)
         IN  IF allocation_size < size THEN [s |-> s, ret |-> NULL]
             ELSE IF os = "nofd" THEN [s |-> [s EXCEPT !.ref = TRUE], ret |-> NULL]
             ELSE IF os = "nomem"
                  THEN IF HasFlag(flags, SOFTFAIL)
                       THEN [s |-> [s EXCEPT !.ref = TRUE], ret |-> NULL]
                       ELSE [s |-> Crash(s, "abort"), ret |-> NULL]
             ELSE LET slot == Placement(s, env)
                      maplen == PageRound(allocation_size)
                      \* a private mapping of /dev/zero reads as zero
                      fresh == Run(maplen - HeaderSize, 0)
                      zeroed == IF HasFlag(flags, ZEROMEM)
                                THEN MemSet(fresh, 0, 0, allocation_size - HeaderSize)
                                ELSE fresh
                      ret_chunk == [st |-> "mapped", hdr |-> "ok", ch_next |-> NULL,
                                    ch_size |-> maplen - HeaderSize, ch_offset |-> 0, bytes |-> zeroed,
                                    maplen |-> maplen]
                  IN  [s |-> [s EXCEPT !.mem[slot] = ret_chunk,
                                       !.hwm = IF slot > s.hwm THEN slot ELSE s.hwm,
                                       !.acq = Append(s.acq, slot)],
                       ret |-> slot]

alloc_chunk(s, size, flags, env) ==
    IF s.fault # "none" THEN [s |-> s, ret |-> NULL]
    ELSE IF size = 0 THEN [s |-> s, ret |-> NULL]
    ELSE LET allocation_size == CHUNK_ALLOC_SIZE(size)
             os == OsAnswer(s, allocation_size, env)
         IN  IF allocation_size < size THEN [s |-> s, ret |-> NULL]
             ELSE IF os = "nofd" THEN [s |-> [s EXCEPT !.ref = TRUE], ret |-> NULL]
             ELSE IF os = "nomem"
                  THEN IF HasFlag(flags, SOFTFAIL)
                       THEN [s |-> [s EXCEPT !.ref = TRUE], ret |-> NULL]
                       ELSE [s |-> Crash(s, "abort"), ret |-> NULL]
             ELSE LET slot == Placement(s, env)
                      maplen == PageRound(allocation_size)
                      \* a private mapping of /dev/zero reads as zero
                      fresh == Run(maplen - HeaderSize, 0)
                      zeroed == IF HasFlag(flags, ZEROMEM)
                                THEN MemSet(fresh, 0, 0, allocation_size - HeaderSize)
                                ELSE fresh
                      ret_chunk == [st |-> "mapped", hdr |-> "ok", ch_next |-> NULL,
                                    ch_size |-> size, ch_offset |-> 0, bytes |-> zeroed,
                                    maplen |-> maplen]
                  IN  [s |-> [s EXCEPT !.mem[slot] = ret_chunk,
                                       !.hwm = IF slot > s.hwm THEN slot ELSE s.hwm,
                                       !.acq = Append(s.acq, slot)],
                       ret |-> slot]

(* ----------------------------- free_chunk ----------------------------- *)
\* free_chunk with assert(chunk) in place of "if (!chunk) return"
free_chunk_asserting(s, chunk) ==
    IF s.fault # "none" THEN s
    ELSE IF chunk = NULL THEN Crash(s, "abort")
    ELSE IF ~Mapped(s, chunk) THEN Crash(s, "segv")
    ELSE IF s.mem[chunk].hdr # "ok" THEN Crash(s, "abort")
    ELSE LET allocation_size == CHUNK_ALLOC_SIZE(s.mem[chunk].ch_size)
             gone == PageRound(allocation_size)
         IN  IF allocation_size <= 0 THEN Crash(s, "abort")
             ELSE IF gone >= s.mem[chunk].maplen
                  THEN [s EXCEPT !.mem[chunk] = NoChunk,
                                 !.rel = Append(s.rel, <<chunk, gone>>)]
                  ELSE [s EXCEPT !.mem[chunk] = [NoChunk EXCEPT !.st = "partial",
                                     !.maplen = s.mem[chunk].maplen - gone],
                                 !.rel = Append(s.rel, <<chunk, gone>>)]

\* munmap(chunk, CHUNK_ALLOC_SIZE(chunk->ch_size)); assert(!check)
free_chunk(s, chunk) ==
    IF s.fault # "none" THEN s
    ELSE IF chunk = NULL THEN s
    ELSE IF ~Mapped(s, chunk) THEN Crash(s, "segv")
    ELSE IF s.mem[chunk].hdr # "ok" THEN Crash(s, "abort")
    ELSE LET allocation_size == CHUNK_ALLOC_SIZE(s.mem[chunk].ch_size)
             gone == PageRound(allocation_size)
         IN  IF allocation_size <= 0 THEN Crash(s, "abort")
             ELSE IF gone >= s.mem[chunk].maplen
                  THEN [s EXCEPT !.mem[chunk] = NoChunk,
                                 !.rel = Append(s.rel, <<chunk, gone>>)]
                  ELSE [s EXCEPT !.mem[chunk] = [NoChunk EXCEPT !.st = "partial",
                                     !.maplen = s.mem[chunk].maplen - gone],
                                 !.rel = Append(s.rel, <<chunk, gone>>)]

(* ----------------------------- arena_alloc ---------------------------- *)
\* alloc_scan trying the last chunk of the chain only: allocation at the tail
RECURSIVE alloc_scan_tail_only(_, _, _, _, _)
alloc_scan_tail_only(s, cursor, alignment, alloc_size, fuel) ==
    IF cursor = NULL THEN [s |-> s, ret |-> NullPtr]
    ELSE IF fuel = 0 THEN [s |-> Crash(s, "hang"), ret |-> NullPtr]
    ELSE IF ~Sound(s, cursor) THEN [s |-> Crash(s, "segv"), ret |-> NullPtr]
    ELSE LET c == s.mem[cursor]
             current_address == DataAddr(cursor) + c.ch_offset
             misalignment == current_address % alignment
             offset == IF misalignment # 0
                       THEN c.ch_offset + (alignment - misalignment)
                       ELSE c.ch_offset
         IN  IF c.ch_next # NULL
             THEN alloc_scan_tail_only(s, c.ch_next, alignment, alloc_size, fuel - 1)
             ELSE IF c.ch_size - offset >= alloc_size
             THEN [s |-> [s EXCEPT !.mem[cursor].ch_offset = offset + alloc_size],
                   ret |-> <<cursor, offset>>]
             ELSE [s |-> [s EXCEPT !.mem[cursor].ch_offset = offset], ret |-> NullPtr]

\* the scan of the chain: "Find a chunk that can accommodate the allocation"
RECURSIVE alloc_scan(_, _, _, _, _)
alloc_scan(s, cursor, alignment, alloc_size, fuel) ==
    IF cursor = NULL THEN [s |-> s, ret |-> NullPtr]
    ELSE IF fuel = 0 THEN [s |-> Crash(s, "hang"), ret |-> NullPtr]
    ELSE IF ~Sound(s, cursor) THEN [s |-> Crash(s, "segv"), ret |-> NullPtr]
    ELSE LET c == s.mem[cursor]
             current_address == DataAddr(cursor) + c.ch_offset
             misalignment == current_address % alignment
             offset == IF misalignment # 0
                       THEN c.ch_offset + (alignment - misalignment)
                       ELSE c.ch_offset
         IN  IF c.ch_size - offset >= alloc_size
             THEN [s |-> [s EXCEPT !.mem[cursor].ch_offset = offset + alloc_size],
                   ret |-> <<cursor, offset>>]
             ELSE alloc_scan([s EXCEPT !.mem[cursor].ch_offset = offset],
                             c.ch_next, alignment, alloc_size, fuel - 1)

\* alloc_grow without "Adjust offset for alignment": the new chunk is used from ch_offset
alloc_grow_unaligned(s, a, alignment, alloc_size, chunk_size, flags, env) ==
    Let(alloc_chunk(s, chunk_size, flags, env), LAMBDA r :
        IF r.s.fault # "none" \/ r.ret = NULL THEN [s |-> r.s, ret |-> NullPtr]
        ELSE LET new_chunk == r.ret
                 offset == r.s.mem[new_chunk].ch_offset
                 tail == r.s.arena[a].ar_tail
             IN  IF ~Mapped(r.s, tail) THEN [s |-> Crash(r.s, "segv"), ret |-> NullPtr]
                 ELSE [s |-> [r.s EXCEPT !.mem[new_chunk].ch_offset = offset + alloc_size,
                                         !.mem[tail].ch_next = new_chunk,
                                         !.arena[a].ar_tail = new_chunk],
                       ret |-> <<new_chunk, offset>>])

\* "Allocate a new chunk if needed and align start address", then link it at the tail
alloc_grow(s, a, alignment, alloc_size, chunk_size, flags, env) ==
    Let(alloc_chunk(s, chunk_size, flags, env), LAMBDA r :
        IF r.s.fault # "none" \/ r.ret = NULL THEN [s |-> r.s, ret |-> NullPtr]
        ELSE LET new_chunk == r.ret
                 misalignment == DataAddr(new_chunk) % alignment
                 offset == IF misalignment # 0
                           THEN r.s.mem[new_chunk].ch_offset + (alignment - misalignment)
                           ELSE r.s.mem[new_chunk].ch_offset
                 tail == r.s.arena[a].ar_tail
             IN  IF ~Mapped(r.s, tail) THEN [s |-> Crash(r.s, "segv"), ret |-> NullPtr]
                 ELSE [s |-> [r.s EXCEPT !.mem[new_chunk].ch_offset = offset + alloc_size,
                                         !.mem[tail].ch_next = new_chunk,
                                         !.arena[a].ar_tail = new_chunk],
                       ret |-> <<new_chunk, offset>>])

\* alloc_init acquiring twice the size it is given
alloc_init_doubled(s, a, chunk_size, flags, env) ==
    IF s.arena[a].ar_tail # NULL THEN [s |-> s, ret |-> s.arena[a].ar_head]
    ELSE IF s.arena[a].ar_head # NULL THEN [s |-> Crash(s, "abort"), ret |-> NULL]
    ELSE Let(alloc_chunk(s, 2 * chunk_size, flags, env), LAMBDA r :
             IF r.ret = NULL THEN r
             ELSE [s |-> [r.s EXCEPT !.arena[a] = [ar_head |-> r.ret, ar_tail |-> r.ret]],
                   ret |-> r.ret])

\* "Initialize arena if empty"
alloc_init(s, a, chunk_size, flags, env) ==
    IF s.arena[a].ar_tail # NULL THEN [s |-> s, ret |-> s.arena[a].ar_head]
    ELSE IF s.arena[a].ar_head # NULL THEN [s |-> Crash(s, "abort"), ret |-> NULL]
    ELSE Let(alloc_chunk(s, chunk_size, flags, env), LAMBDA r :
             IF r.ret = NULL THEN r
             ELSE [s |-> [r.s EXCEPT !.arena[a] = [ar_head |-> r.ret, ar_tail |-> r.ret]],
                   ret |-> r.ret])

\* arena_alloc without the test "alignment & (alignment - 1)"
arena_alloc_any_alignment(s, a, num_bytes, alignment, flags, env) ==
    IF a = NULL \/ num_bytes = 0 \/ alignment = 0
    THEN [s |-> s, ret |-> NullPtr]
    ELSE LET alloc_size == ROUND_UP(num_bytes, alignment)
             chunk_size == ROUND_UP(alloc_size, DEFAULT_CHUNK_SIZE)
         IN  Let(alloc_init(s, a, chunk_size, flags, env), LAMBDA init :
                 IF init.s.fault # "none" \/ init.ret = NULL
                 THEN [s |-> init.s, ret |-> NullPtr]
                 ELSE Let(alloc_scan(init.s, init.s.arena[a].ar_head, alignment,
                                     alloc_size, MaxChunks + 1), LAMBDA scan :
                          IF scan.s.fault # "none" \/ scan.ret # NullPtr THEN scan
                          ELSE alloc_grow(scan.s, a, alignment, alloc_size, chunk_size,
                                          flags, env)))

arena_alloc(s, a, num_bytes, alignment, flags, env) ==
    IF a = NULL \/ num_bytes = 0 \/ alignment = 0 \/ ~AndMinusOneIsZero(alignment)
    THEN [s |-> s, ret |-> NullPtr]
    ELSE LET alloc_size == ROUND_UP(num_bytes, alignment)
             chunk_size == ROUND_UP(alloc_size, DEFAULT_CHUNK_SIZE)
         IN  Let(alloc_init(s, a, chunk_size, flags, env), LAMBDA init :
                 IF init.s.fault # "none" \/ init.ret = NULL
                 THEN [s |-> init.s, ret |-> NullPtr]
                 ELSE Let(alloc_scan(init.s, init.s.arena[a].ar_head, alignment,
                                     alloc_size, MaxChunks + 1), LAMBDA scan :
                          IF scan.s.fault # "none" \/ scan.ret # NullPtr THEN scan
                          ELSE alloc_grow(scan.s, a, alignment, alloc_size, chunk_size,
                                          flags, env)))

(* --------------------------- arena_get_size --------------------------- *)
\* get_size_walk adding up the capacity of each chunk instead of the bytes in use
RECURSIVE get_size_walk_capacity(_, _, _, _)
get_size_walk_capacity(s, cursor, size, fuel) ==
    IF cursor = NULL THEN [s |-> s, ret |-> size]
    ELSE IF fuel = 0 THEN [s |-> Crash(s, "hang"), ret |-> size]
    ELSE IF ~Sound(s, cursor) THEN [s |-> Crash(s, "segv"), ret |-> size]
    ELSE get_size_walk_capacity(s, s.mem[cursor].ch_next,
                                size + s.mem[cursor].ch_size, fuel - 1)

RECURSIVE get_size_walk(_, _, _, _)
get_size_walk(s, cursor, size, fuel) ==
    IF cursor = NULL THEN [s |-> s, ret |-> size]
    ELSE IF fuel = 0 THEN [s |-> Crash(s, "hang"), ret |-> size]
    ELSE IF ~Sound(s, cursor) THEN [s |-> Crash(s, "segv"), ret |-> size]
    ELSE get_size_walk(s, s.mem[cursor].ch_next, size + s.mem[cursor].ch_offset, fuel - 1)

arena_get_size(s, a) ==
    IF a = NULL THEN [s |-> s, ret |-> 0]
    ELSE get_size_walk(s, s.arena[a].ar_head, 0, MaxChunks + 1)

(* ------------------------ memcpy through pointers --------------------- *)
\* An access that runs past the end of a mapping is undefined: it faults when the
\* next page is unmapped (env.victim = NULL), and otherwise lands in the mapping
\* that happens to follow, env.victim, starting with its chunk header.
Spill(s, slot, env) == Mapped(s, env.victim) /\ env.victim # slot

\* n bytes read from offset `from` of slot's data
ReadBytes(s, slot, from, n, env) ==
    Let(RunSlice(s.mem[slot].bytes, from, n), LAMBDA inside :
        IF RunLen(inside) = n THEN inside
        ELSE RunNorm(inside \o Run(n - RunLen(inside), GARBAGE)))

\* src written at offset `at` of slot's data
WriteBytes(s, slot, at, src, env) ==
    LET c == s.mem[slot]
        n == RunLen(src)
        over == at + n - Cap(c)
    IN  IF s.fault # "none" THEN s
        ELSE IF n < 0 \/ at < 0 \/ ~Mapped(s, slot) THEN Crash(s, "segv")
        ELSE IF over <= 0 THEN [s EXCEPT !.mem[slot].bytes = RunPut(c.bytes, at, src)]
        ELSE IF ~Spill(s, slot, env) THEN [Crash(s, "segv") EXCEPT !.ovf = TRUE]
        ELSE LET v == s.mem[env.victim]
                 spilled == RunDrop(src, n - over)
             IN  [s EXCEPT !.mem[slot].bytes = RunPut(c.bytes, at, src),
                           !.mem[env.victim].hdr = "garbage",
                           !.mem[env.victim].bytes =
                               RunPut(v.bytes, 0, RunDrop(spilled, HeaderSize)),
                           !.ovf = TRUE]

\* memcpy(&dst->ch_data[at], src->ch_data, n)
CopyBytes(s, dst, at, src, n, env) ==
    IF s.fault # "none" THEN s
    ELSE IF n < 0 \/ ~Mapped(s, src) \/ ~Mapped(s, dst) THEN Crash(s, "segv")
    ELSE IF n > Cap(s.mem[src]) /\ ~Spill(s, src, env)
         THEN [Crash(s, "segv") EXCEPT !.ovf = TRUE]
    ELSE LET s1 == IF n > Cap(s.mem[src]) THEN [s EXCEPT !.ovf = TRUE] ELSE s
         IN  WriteBytes(s1, dst, at, ReadBytes(s, src, 0, n, env), env)

(* ------------------------------ arena_push ---------------------------- *)
\* data is the caller's buffer: absent, or `size` bytes of value data.val
\* arena_push without the test of data: memcpy reads through the null pointer
arena_push_any_data(s, a, data, size, alignment, flags, env) ==
    IF a = NULL THEN [s |-> s, ret |-> NullPtr]
    ELSE Let(arena_alloc(s, a, size, alignment, flags, env), LAMBDA r :
             LET start_addr == r.ret
             IN  IF r.s.fault # "none" \/ start_addr = NullPtr
                 THEN [s |-> r.s, ret |-> NullPtr]
                 ELSE IF ~data.present \/ size < 0
                 THEN [s |-> Crash(r.s, "segv"), ret |-> NullPtr]
                 ELSE [s |-> WriteBytes(r.s, start_addr[1], start_addr[2],
                                        Run(size, data.val), env),
                       ret |-> start_addr])

arena_push(s, a, data, size, alignment, flags, env) ==
    IF a = NULL \/ ~data.present THEN [s |-> s, ret |-> NullPtr]
    ELSE Let(arena_alloc(s, a, size, alignment, flags, env), LAMBDA r :
             LET start_addr == r.ret
             IN  IF r.s.fault # "none" \/ start_addr = NullPtr
                 THEN [s |-> r.s, ret |-> NullPtr]
                 \* memcpy takes the length as a size_t: a negative size is a length
                 \* no mapping holds
                 ELSE IF size < 0 THEN [s |-> Crash(r.s, "segv"), ret |-> NullPtr]
                 ELSE [s |-> WriteBytes(r.s, start_addr[1], start_addr[2],
                                        Run(size, data.val), env),
                       ret |-> start_addr])

(* ----------------------- arena_crop_and_coalesce ---------------------- *)
\* coalesce_walk without free_chunk(prev): the chunks of the old chain stay mapped
RECURSIVE coalesce_walk_keeping(_, _, _, _, _, _)
coalesce_walk_keeping(s, cropped, cursor, curr_offset, env, fuel) ==
    IF s.fault # "none" \/ cursor = NULL THEN s
    ELSE IF fuel = 0 THEN Crash(s, "hang")
    ELSE IF ~Sound(s, cursor) THEN Crash(s, "segv")
    ELSE LET c == s.mem[cursor]
             s1 == CopyBytes(s, cropped, curr_offset, cursor, c.ch_offset, env)
         IN  coalesce_walk_keeping(s1, cropped, c.ch_next,
                                   curr_offset + c.ch_offset, env, fuel - 1)

\* coalesce_walk without "curr_offset += cursor->ch_offset": every chunk lands at 0
RECURSIVE coalesce_walk_at_zero(_, _, _, _, _, _)
coalesce_walk_at_zero(s, cropped, cursor, curr_offset, env, fuel) ==
    IF s.fault # "none" \/ cursor = NULL THEN s
    ELSE IF fuel = 0 THEN Crash(s, "hang")
    ELSE IF ~Sound(s, cursor) THEN Crash(s, "segv")
    ELSE LET c == s.mem[cursor]
             s1 == CopyBytes(s, cropped, curr_offset, cursor, c.ch_offset, env)
         IN  coalesce_walk_at_zero(free_chunk(s1, cursor), cropped, c.ch_next,
                                   curr_offset, env, fuel - 1)

RECURSIVE coalesce_walk(_, _, _, _, _, _)
coalesce_walk(s, cropped, cursor, curr_offset, env, fuel) ==
    IF s.fault # "none" \/ cursor = NULL THEN s
    ELSE IF fuel = 0 THEN Crash(s, "hang")
    ELSE IF ~Sound(s, cursor) THEN Crash(s, "segv")
    ELSE LET c == s.mem[cursor]
             s1 == CopyBytes(s, cropped, curr_offset, cursor, c.ch_offset, env)
         IN  coalesce_walk(free_chunk(s1, cursor), cropped, c.ch_next,
                           curr_offset + c.ch_offset, env, fuel - 1)

\* the walk over the old chain, then "arena->ar_head = cropped; arena->ar_tail = cropped"
coalesce_into(s, a, cropped, env) ==
    Let(coalesce_walk(s, cropped, s.arena[a].ar_head, 0, env, MaxChunks + 1), LAMBDA s1 :
        [s |-> IF s1.fault # "none" THEN s1
               ELSE [s1 EXCEPT !.arena[a] = [ar_head |-> cropped, ar_tail |-> cropped]],
         ret |-> <<cropped, 0>>])

\* arena_crop_and_coalesce asking for one byte more than the bytes in use
arena_crop_and_coalesce_one_more(s, a, flags, env) ==
    IF a = NULL THEN [s |-> s, ret |-> NullPtr] ELSE
    Let(arena_get_size(s, a), LAMBDA sz :
        IF sz.s.fault # "none" THEN [s |-> sz.s, ret |-> NullPtr]
        ELSE Let(alloc_chunk(sz.s, sz.ret + 1, flags, env), LAMBDA r :
                 IF r.s.fault # "none" \/ r.ret = NULL THEN [s |-> r.s, ret |-> NullPtr]
                 ELSE coalesce_into(r.s, a, r.ret, env)))

arena_crop_and_coalesce(s, a, flags, env) ==
    IF a = NULL THEN [s |-> s, ret |-> NullPtr] ELSE
    Let(arena_get_size(s, a), LAMBDA sz :
        IF sz.s.fault # "none" THEN [s |-> sz.s, ret |-> NullPtr]
        ELSE Let(alloc_chunk(sz.s, sz.ret, flags, env), LAMBDA r :
                 IF r.s.fault # "none" \/ r.ret = NULL THEN [s |-> r.s, ret |-> NullPtr]
                 ELSE coalesce_into(r.s, a, r.ret, env)))

(* ----------------------- arena_clear, arena_reset --------------------- *)
\* clear_walk with the memset over the bytes in use only, not the whole capacity
RECURSIVE clear_walk_in_use(_, _, _)
clear_walk_in_use(s, cursor, fuel) ==
    IF s.fault # "none" \/ cursor = NULL THEN s
    ELSE IF fuel = 0 THEN Crash(s, "hang")
    ELSE IF ~Sound(s, cursor) THEN Crash(s, "segv")
    ELSE LET c == s.mem[cursor]
         IN  IF c.ch_size < 0 \/ c.ch_size > Cap(c) THEN Crash(s, "segv")
             ELSE clear_walk_in_use(
                      [s EXCEPT !.mem[cursor].bytes = MemSet(c.bytes, 0, 0, c.ch_offset),
                                !.mem[cursor].ch_offset = 0],
                      c.ch_next, fuel - 1)

RECURSIVE clear_walk(_, _, _)
clear_walk(s, cursor, fuel) ==
    IF s.fault # "none" \/ cursor = NULL THEN s
    ELSE IF fuel = 0 THEN Crash(s, "hang")
    ELSE IF ~Sound(s, cursor) THEN Crash(s, "segv")
    ELSE LET c == s.mem[cursor]
         IN  IF c.ch_size < 0 \/ c.ch_size > Cap(c) THEN Crash(s, "segv")
             ELSE clear_walk([s EXCEPT !.mem[cursor].bytes = MemSet(c.bytes, 0, 0, c.ch_size),
                                       !.mem[cursor].ch_offset = 0],
                             c.ch_next, fuel - 1)

arena_clear(s, a) ==
    IF a = NULL THEN s ELSE clear_walk(s, s.arena[a].ar_head, MaxChunks + 1)

\* reset_walk that also wipes the data of each chunk, as arena_clear does
RECURSIVE reset_walk_wiping(_, _, _)
reset_walk_wiping(s, cursor, fuel) ==
    IF s.fault # "none" \/ cursor = NULL THEN s
    ELSE IF fuel = 0 THEN Crash(s, "hang")
    ELSE IF ~Sound(s, cursor) THEN Crash(s, "segv")
    ELSE reset_walk_wiping(
             [s EXCEPT !.mem[cursor].ch_offset = 0,
                       !.mem[cursor].bytes = MemSet(@, 0, 0, s.mem[cursor].ch_size)],
             s.mem[cursor].ch_next, fuel - 1)

RECURSIVE reset_walk(_, _, _)
reset_walk(s, cursor, fuel) ==
    IF s.fault # "none" \/ cursor = NULL THEN s
    ELSE IF fuel = 0 THEN Crash(s, "hang")
    ELSE IF ~Sound(s, cursor) THEN Crash(s, "segv")
    ELSE reset_walk([s EXCEPT !.mem[cursor].ch_offset = 0],
                    s.mem[cursor].ch_next, fuel - 1)

arena_reset(s, a) ==
    IF a = NULL THEN s ELSE reset_walk(s, s.arena[a].ar_head, MaxChunks + 1)

(* ------------------------------ arena_free ---------------------------- *)
\* memset(cursor, 0, CHUNK_ALLOC_SIZE(cursor->ch_size)): the header is part of the range
zero_chunk(s, cursor) ==
    LET c == s.mem[cursor]
    IN  IF c.ch_size < 0 \/ c.ch_size > Cap(c) THEN Crash(s, "segv")
        ELSE [s EXCEPT !.mem[cursor].ch_next = NULL,
                       !.mem[cursor].ch_size = 0,
                       !.mem[cursor].ch_offset = 0,
                       !.mem[cursor].bytes = MemSet(c.bytes, 0, 0, c.ch_size)]

RECURSIVE free_walk(_, _, _, _)
free_walk(s, cursor, flags, fuel) ==
    IF s.fault # "none" \/ cursor = NULL THEN s
    ELSE IF fuel = 0 THEN Crash(s, "hang")
    ELSE IF ~Sound(s, cursor) THEN Crash(s, "segv")
    ELSE Let(IF HasFlag(flags, ZEROMEM) THEN zero_chunk(s, cursor) ELSE s, LAMBDA s1 :
             \* prev = cursor; cursor = cursor->ch_next; free_chunk(prev)
             free_walk(free_chunk(s1, cursor), s1.mem[cursor].ch_next, flags, fuel - 1))

arena_free(s, a, flags) ==
    IF a = NULL THEN s ELSE free_walk(s, s.arena[a].ar_head, flags, MaxChunks + 1)

(* ------------------------------ arena_copy ---------------------------- *)
\* new_chunk takes the offset, the size and the in-use bytes of src_cursor
copy_chunk(s, new_chunk, src_cursor, env) ==
    LET c == s.mem[src_cursor]
        s1 == [s EXCEPT !.mem[new_chunk].ch_offset = c.ch_offset,
                        !.mem[new_chunk].ch_size = c.ch_size]
    IN  CopyBytes(s1, new_chunk, 0, src_cursor, c.ch_offset, env)

RECURSIVE copy_walk(_, _, _, _, _, _, _)
copy_walk(s, copy_dst, src_cursor, dst_cursor, flags, env, fuel) ==
    IF s.fault # "none" \/ src_cursor = NULL THEN s
    ELSE IF fuel = 0 THEN Crash(s, "hang")
    ELSE IF ~Sound(s, src_cursor) THEN Crash(s, "segv")
    ELSE Let(alloc_chunk(s, s.mem[src_cursor].ch_size, flags, env), LAMBDA r :
             IF r.s.fault # "none" THEN r.s
             ELSE IF r.ret = NULL THEN arena_free(r.s, copy_dst, flags)
             ELSE Let(copy_chunk(r.s, r.ret, src_cursor, env), LAMBDA s1 :
                      IF s1.fault # "none" THEN s1
                      ELSE IF ~Mapped(s1, dst_cursor) THEN Crash(s1, "segv")
                      ELSE copy_walk([s1 EXCEPT !.mem[dst_cursor].ch_next = r.ret,
                                                !.arena[copy_dst].ar_tail = r.ret],
                                     copy_dst, s1.mem[src_cursor].ch_next, r.ret,
                                     flags, env, fuel - 1)))

\* the head of the copy: "copy_dst->ar_head = dst_head; copy_dst->ar_tail = dst_head"
copy_head(s, copy_dst, dst_head, src_head, flags, env) ==
    Let(copy_chunk(s, dst_head, src_head, env), LAMBDA s1 :
        IF s1.fault # "none" THEN s1
        ELSE IF ~Sound(s1, src_head) THEN Crash(s1, "segv")
        ELSE copy_walk([s1 EXCEPT !.arena[copy_dst] =
                           [ar_head |-> dst_head, ar_tail |-> dst_head]],
                       copy_dst, s1.mem[src_head].ch_next, dst_head, flags, env,
                       MaxChunks + 1))

arena_copy(s, copy_dst, copy_src, flags, env) ==
    IF copy_dst = NULL \/ copy_src = NULL THEN s ELSE
    LET src == s.arena[copy_src]
    IN  IF src.ar_head = NULL \/ src.ar_tail = NULL THEN s
        ELSE IF ~Sound(s, src.ar_head) THEN Crash(s, "segv")
        ELSE Let(alloc_chunk(s, s.mem[src.ar_head].ch_size, flags, env), LAMBDA r :
                 IF r.s.fault # "none" THEN r.s
                 \* dst_head is used unchecked
                 ELSE IF r.ret = NULL THEN Crash(r.s, "segv")
                 ELSE copy_head(r.s, copy_dst, r.ret, src.ar_head, flags, env))

(* ------------------------- reading the heap --------------------------- *)
\* the chunks a walk from cursor visits; a pointer that cannot be followed ends it
RECURSIVE ChainFrom(_, _, _)
ChainFrom(m, cursor, fuel) ==
    IF cursor \notin Slots \/ fuel = 0 THEN << >>
    ELSE IF m[cursor].st # "mapped" \/ m[cursor].hdr # "ok" THEN <<cursor>>
    ELSE <<cursor>> \o ChainFrom(m, m[cursor].ch_next, fuel - 1)

ChainOf(m, ar, a) == ChainFrom(m, ar[a].ar_head, MaxChunks + 1)
Chain(a) == ChainOf(mem, arena, a)
Range(f) == {f[i] : i \in DOMAIN f}

\* every chunk of the chain can be read
Intact(m, ar, a) == \A x \in Range(ChainOf(m, ar, a)) : m[x].st = "mapped" /\ m[x].hdr = "ok"

\* what arena_get_size returns in a heap
GetUsedSize(m, ar, a) == arena_get_size([mem |-> m, arena |-> ar, fault |-> "none"], a).ret

\* the position in the arena's chain of the chunk a pointer lies in (0: in none)
ChainPos(m, ar, a, ptr) ==
    LET chain == ChainOf(m, ar, a)
    IN  IF \E i \in DOMAIN chain : chain[i] = ptr[1]
        THEN CHOOSE i \in DOMAIN chain : chain[i] = ptr[1]
        ELSE 0

(* ------------------------------ the client ---------------------------- *)
Init ==
    /\ mem = [x \in Slots |-> NoChunk]
    /\ arena = [a \in Arenas |-> [ar_head |-> NULL, ar_tail |-> NULL]]   \* arena ar = {0}
    /\ hwm = 0
    /\ fault = "none"
    /\ last = [op |-> "none", a |-> 0, b |-> 0, ptr |-> NullPtr, n |-> 0, al |-> 0,
               fl |-> 0, acq |-> << >>, rel |-> << >>, ref |-> FALSE, buf |-> TRUE]
    /\ log = [a \in Arenas |-> << >>]
    /\ hist = [a \in Arenas |-> "new"]
    /\ nops = 0

\* a client program: how many calls it makes, the alignments and the sizes it asks
\* for, and the answers of the system it meets
Client(ops, alignments, calls, sizes) ==
    [ops |-> ops, alignments |-> alignments, calls |-> calls, sizes |-> sizes]

Running(k) == fault = "none" /\ nops < k.ops

\* the client builds arena 1 first; arena 2 comes into use as the destination of a copy
InUse(a) == a = 1 \/ hist[a] # "new"

Env(call, pref, victim) ==
    [failAt |-> call.failAt, kind |-> call.kind, pref |-> pref, victim |-> victim]

\* the choices mmap has in the current state
Prefs == IF Placements([mem |-> mem, hwm |-> hwm]) = {} THEN {NULL}
         ELSE Placements([mem |-> mem, hwm |-> hwm])
\* what may lie right after a mapping (only an access past its end finds out)
Victims(overran) == IF overran THEN Slots \cup {NULL} ELSE {NULL}

Called(op, a, b, ptr, n, al, fl, s) ==
    [op |-> op, a |-> a, b |-> b, ptr |-> ptr, n |-> n, al |-> al, fl |-> fl,
     acq |-> s.acq, rel |-> s.rel, ref |-> s.ref, buf |-> TRUE]

\* the call returns (or the process dies in it: then only the fault is recorded)
Return(s, call, newhist, newlog) ==
    /\ nops' = nops + 1
    /\ fault' = s.fault
    /\ IF s.fault # "none"
       THEN /\ last' = [call EXCEPT !.ptr = NullPtr, !.acq = << >>, !.rel = << >>]
            /\ UNCHANGED <<mem, arena, hwm, log, hist>>
       ELSE /\ last' = call
            /\ mem' = s.mem
            /\ arena' = s.arena
            /\ hwm' = s.hwm
            /\ hist' = newhist
            /\ log' = newlog

Forget(a) == IF a = NULL THEN log ELSE [log EXCEPT ![a] = << >>]
\* the region a call returned: its address, its length, the alignment asked for, the
\* payload written to it (0: none) and the position of its chunk in the chain
Region(r, a, len, al, val) ==
    [ptr |-> r.ret, len |-> len, al |-> al, val |-> val,
     pos |-> ChainPos(r.s.mem, r.s.arena, a, r.ret)]
\* the arena was built from empty by successful arena_alloc calls only
Allocations(a) == hist[a] = "grow" /\ \A i \in DOMAIN log[a] : log[a][i].val = 0
\* the arena was reset after that, and this call is the next of those allocations
Again(a, num_bytes, alignment) ==
    /\ hist[a] = "replay" /\ log[a] # << >>
    /\ Head(log[a]).len = num_bytes /\ Head(log[a]).al = alignment
Other(a) == IF a = NULL THEN hist ELSE [hist EXCEPT ![a] = "other"]

\* a call in which the failAt-th acquisition is refused makes at least failAt of them
Plain == Call(0, 0, "nomem")
CallsFor(k, s) == {call \in k.calls :
                     call.failAt <= Len(s.acq) + (IF s.fault = "abort" THEN 1 ELSE 0)}

AnyClient == Client(MaxOps, Alignments, Calls, Sizes)
ByteClient == Client(MaxByteOps, {1}, {Plain}, Sizes)
\* a client that also asks for more than the default chunk size
SizeClient == Client(MaxSizeOps, {1, 16},
                     {Plain, Call(SOFTFAIL, 1, "nomem"), Call(SOFTFAIL, 2, "nomem")},
                     {1, DEFAULT_CHUNK_SIZE, DEFAULT_CHUNK_SIZE + 1,
                      2 * DEFAULT_CHUNK_SIZE})

Alloc(k, a, num_bytes, alignment, pref) ==
    /\ Running(k)
    /\ InUse(a)
    /\ \E r0 \in {arena_alloc(Enter(mem, arena, hwm), a, num_bytes, alignment,
                              Plain.flags, Env(Plain, pref, NULL))} :
       \E call \in CallsFor(k, r0.s) :
       \E r \in {IF call = Plain THEN r0
                 ELSE arena_alloc(Enter(mem, arena, hwm), a, num_bytes, alignment,
                                  call.flags, Env(call, pref, NULL))} :
          LET grown == r.ret # NullPtr /\ hist[a] \in {"new", "push", "grow"}
              again == r.ret # NullPtr /\ Again(a, num_bytes, alignment)
          IN  Return(r.s, Called("alloc", a, 0, r.ret, num_bytes, alignment, 0, r.s),
                     [hist EXCEPT ![a] = IF grown THEN "grow"
                                         ELSE IF again THEN "replay" ELSE "other"],
                     IF grown
                     THEN [log EXCEPT ![a] =
                              Append(@, Region(r, a, num_bytes, alignment, 0))]
                     ELSE IF again THEN [log EXCEPT ![a] = Tail(@)]
                     ELSE Forget(a))

\* the caller's buffer holds `size` bytes of a value no earlier push used
Push(k, a, size, alignment, pref) ==
    /\ Running(k)
    /\ InUse(a)
    /\ \E data \in {[present |-> TRUE, val |-> nops + 1]} :
       \E r0 \in {arena_push(Enter(mem, arena, hwm), a, data, size, alignment,
                             Plain.flags, Env(Plain, pref, NULL))} :
       \E call \in CallsFor(k, r0.s), victim \in Victims(r0.s.ovf) :
       \E r \in {IF call = Plain /\ victim = NULL THEN r0
                 ELSE arena_push(Enter(mem, arena, hwm), a, data, size, alignment,
                                 call.flags, Env(call, pref, victim))} :
          LET grown == r.ret # NullPtr /\ hist[a] \in {"new", "push", "grow"}
              plain == grown /\ alignment = 1 /\ hist[a] \in {"new", "push"}
          IN  Return(r.s, Called("push", a, 0, r.ret, size, alignment, 0, r.s),
                     [hist EXCEPT ![a] = IF plain THEN "push"
                                         ELSE IF grown THEN "grow" ELSE "other"],
                     IF grown
                     THEN [log EXCEPT ![a] =
                              Append(@, Region(r, a, size, alignment, data.val))]
                     ELSE Forget(a))

Coalesce(k, a, pref) ==
    /\ Running(k)
    /\ InUse(a)
    /\ \E r0 \in {arena_crop_and_coalesce(Enter(mem, arena, hwm), a, Plain.flags,
                                          Env(Plain, pref, NULL))} :
       \E call \in CallsFor(k, r0.s), victim \in Victims(r0.s.ovf) :
       \E r \in {IF call = Plain /\ victim = NULL THEN r0
                 ELSE arena_crop_and_coalesce(Enter(mem, arena, hwm), a, call.flags,
                                              Env(call, pref, victim))} :
          LET kept == r.ret # NullPtr /\ hist[a] = "push"
          IN  Return(r.s, Called("coalesce", a, 0, r.ret, 0, 0, 0, r.s),
                     [hist EXCEPT ![a] = IF kept THEN "coalesced" ELSE "other"],
                     IF kept THEN log ELSE Forget(a))

Clear(k, a) ==
    /\ Running(k)
    /\ InUse(a)
    /\ \E s \in {arena_clear(Enter(mem, arena, hwm), a)} :
          Return(s, Called("clear", a, 0, NullPtr, 0, 0, 0, s), Other(a), Forget(a))

Reset(k, a) ==
    /\ Running(k)
    /\ InUse(a)
    /\ \E s \in {arena_reset(Enter(mem, arena, hwm), a)} :
          Return(s, Called("reset", a, 0, NullPtr, 0, 0, 0, s),
                 [hist EXCEPT ![a] = IF Allocations(a) THEN "replay" ELSE "other"],
                 IF Allocations(a) THEN log ELSE Forget(a))

Free(k, a, flags) ==
    /\ Running(k)
    /\ InUse(a)
    /\ \E s \in {arena_free(Enter(mem, arena, hwm), a, flags)} :
          Return(s, Called("free", a, 0, NullPtr, 0, 0, flags, s), Other(a), Forget(a))

\* copy_dst and copy_src are restrict-qualified: the client passes two arenas
Copy(k, copy_dst, copy_src, pref) ==
    /\ Running(k)
    /\ copy_dst # copy_src
    /\ InUse(copy_src)
    /\ \E s0 \in {arena_copy(Enter(mem, arena, hwm), copy_dst, copy_src, Plain.flags,
                             Env(Plain, pref, NULL))} :
       \E call \in CallsFor(k, s0), victim \in Victims(s0.ovf) :
       \E s \in {IF call = Plain /\ victim = NULL THEN s0
                 ELSE arena_copy(Enter(mem, arena, hwm), copy_dst, copy_src,
                                 call.flags, Env(call, pref, victim))} :
          Return(s, Called("copy", copy_dst, copy_src, NullPtr, 0, 0, 0, s),
                 Other(copy_dst), Forget(copy_dst))

NextOf(k) ==
    \/ \E a \in Arenas, n \in k.sizes, al \in k.alignments, pref \in Prefs :
          Alloc(k, a, n, al, pref)
    \/ \E a \in Arenas, n \in k.sizes, al \in k.alignments, pref \in Prefs :
          Push(k, a, n, al, pref)
    \/ \E a \in Arenas, pref \in Prefs : Coalesce(k, a, pref)
    \/ \E a \in Arenas : Clear(k, a)
    \/ \E a \in Arenas : Reset(k, a)
    \/ \E a \in Arenas, flags \in FreeFlags : Free(k, a, flags)
    \/ \E d \in Arenas, s \in Arenas, pref \in Prefs : Copy(k, d, s, pref)

\* a careless client makes every call of AnyClient's kind, and calls that break the
\* contract: no arena, no buffer, a size of zero or below, an alignment that is zero
\* or not a power of two
CarelessClient == Client(MaxCarelessOps, {1, 16}, {Plain, Call(SOFTFAIL, 1, "nomem")},
                         Sizes)
BadArgs == {<<0, 1>>, <<0, 0>>, <<1, 0>>, <<1, 24>>, <<DEFAULT_CHUNK_SIZE, 3>>,
            <<0 - 1, 1>>, <<0 - 1, 16>>, <<0 - DEFAULT_CHUNK_SIZE - 1, 1>>}
BadSizes == {<<0, 1>>, <<0 - 1, 1>>}
\* the caller's buffer: absent, or holding a payload
Buffers == <<[present |-> FALSE, val |-> 0], [present |-> TRUE, val |-> 1]>>

AllocBad(k, a, num_bytes, alignment) ==
    /\ Running(k)
    /\ IF a = NULL THEN TRUE ELSE InUse(a)
    /\ \E call \in {Plain, Call(SOFTFAIL, 0, "nomem")} :
       \E r \in {arena_alloc(Enter(mem, arena, hwm), a, num_bytes, alignment,
                              call.flags, Env(call, NULL, NULL))} :
          Return(r.s, Called("alloc", a, 0, r.ret, num_bytes, alignment, 0, r.s),
                 Other(a), Forget(a))

PushBad(k, a, data, size, alignment) ==
    /\ Running(k)
    /\ IF a = NULL THEN TRUE ELSE InUse(a)
    /\ \E call \in {Plain, Call(SOFTFAIL, 0, "nomem")} :
       \E r \in {arena_push(Enter(mem, arena, hwm), a, data, size, alignment,
                             call.flags, Env(call, NULL, NULL))} :
          Return(r.s, [Called("push", a, 0, r.ret, size, alignment, 0, r.s)
                          EXCEPT !.buf = data.present],
                 Other(a), Forget(a))

Misuse(k) ==
    \/ \E a \in Arenas, bad \in BadArgs : AllocBad(k, a, bad[1], bad[2])
    \/ \E al \in k.alignments : AllocBad(k, NULL, 1, al)
    \/ \E a \in Arenas, bad \in BadSizes : PushBad(k, a, Buffers[2], bad[1], bad[2])
    \/ \E a \in Arenas, al \in k.alignments : PushBad(k, a, Buffers[1], 1, al)
    \/ \E data \in Range(Buffers) : PushBad(k, NULL, data, 1, 1)

\* sizes asked of alloc_chunk: in range, zero, negative, and so large that the size
\* plus the header does not fit the type
ChunkSizes == {1, DEFAULT_CHUNK_SIZE, 0, 0 - 1, 0 - HeaderSize,
               PTRDIFF_MAX - HeaderSize, PTRDIFF_MAX - HeaderSize + 1, PTRDIFF_MAX}
\* a client of the chunk manager calls alloc_chunk and free_chunk itself and uses no
\* arena: the chunks it holds are the mappings alive
ChunkClient == Client(MaxChunkOps, {1},
                      {Plain, Call(ZEROMEM, 0, "nomem"), Call(SOFTFAIL, 0, "nomem"),
                       Call(0, 1, "nomem"), Call(SOFTFAIL, 1, "nomem"),
                       Call(0, 1, "nofd"), Call(SOFTFAIL, 1, "nofd")},
                      ChunkSizes)
Acquire(k, size, pref) ==
    /\ Running(k)
    /\ \E r0 \in {alloc_chunk(Enter(mem, arena, hwm), size, Plain.flags,
                              Env(Plain, pref, NULL))} :
       \E call \in CallsFor(k, r0.s) :
       \E r \in {IF call = Plain THEN r0
                 ELSE alloc_chunk(Enter(mem, arena, hwm), size, call.flags,
                                  Env(call, pref, NULL))} :
          Return(r.s, Called("acquire", NULL, 0, <<r.ret, 0>>, size, 1, call.flags, r.s),
                 hist, log)

Release(k, chunk) ==
    /\ Running(k)
    /\ \E s \in {free_chunk(Enter(mem, arena, hwm), chunk)} :
          Return(s, Called("release", NULL, 0, <<chunk, 0>>, 0, 1, 0, s), hist, log)

\* the chunk pointers the client has, and the null pointer
Held == {x \in Slots : mem[x].st = "mapped"} \cup {NULL}

Next == NextOf(AnyClient)
NextSizes == NextOf(SizeClient)
NextChunks ==
    \/ \E size \in ChunkClient.sizes, pref \in Prefs : Acquire(ChunkClient, size, pref)
    \/ \E chunk \in Held : Release(ChunkClient, chunk)
NextBytes == NextOf(ByteClient)
NextCareless == NextOf(CarelessClient) \/ Misuse(CarelessClient)

\* every client
Spec == Init /\ [][Next]_vars
\* the clients that ask for byte alignment and are never refused memory
SpecBytes == Init /\ [][NextBytes]_vars
\* the clients that also break the contract
SpecCareless == Init /\ [][NextCareless]_vars
\* the clients that ask for more than the default chunk size
SpecSizes == Init /\ [][NextSizes]_vars
\* the clients of the chunk manager
SpecChunks == Init /\ [][NextChunks]_vars

(* ------------------------------- claims ------------------------------- *)
\* the last call was arena_alloc or arena_push and returned an address
Allocated == fault = "none" /\ last.op \in {"alloc", "push"} /\ last.ptr # NullPtr
\* bytes the last allocation reserved
Reservation == ROUND_UP(last.n, last.al)

\* C1: every address a successful Allocate (or Push) returns is a multiple of the
\* requested alignment, on the scan path and on the new-chunk path, whatever the
\* misalignment of the chunk's data start.
C1_Aligned == Allocated => PtrAddr(last.ptr) % last.al = 0

\* an allocation served from a chunk acquired in the call and linked behind the head,
\* whose data start is not aligned: the address was moved up
C1_Witness ==
    /\ Allocated
    /\ last.al > 1
    /\ last.ptr[1] \in Range(last.acq)
    /\ last.ptr[1] # arena[last.a].ar_head
    /\ DataAddr(last.ptr[1]) % last.al # 0
    /\ last.ptr[2] > 0

\* C2: 0 <= offset <= size holds for every chunk of every arena.
C2_OffsetWithinSize ==
    fault = "none" =>
        \A a \in Arenas : \A x \in Range(Chain(a)) :
            (mem[x].st = "mapped" /\ mem[x].hdr = "ok")
                => (0 <= mem[x].ch_offset /\ mem[x].ch_offset <= mem[x].ch_size)

\* C3: the region [a, a + reservation) of a successful allocation lies inside the data
\* region [data, data + size) of exactly one chunk of the arena's chain.
C3_RegionInsideOneChunk ==
    Allocated =>
        /\ Cardinality({i \in DOMAIN Chain(last.a) : Chain(last.a)[i] = last.ptr[1]}) = 1
        /\ 0 <= last.ptr[2]
        /\ last.ptr[2] + Reservation <= mem[last.ptr[1]].ch_size

\* C4: after one Free(arena, flags), whatever the flags, no chunk of the arena's chain
\* is still mapped, and each was released exactly once.
C4_FreeReleasesAll ==
    [][(last'.op = "free" /\ fault' = "none" /\ Intact(mem, arena, last'.a))
         => \A x \in Range(ChainOf(mem, arena, last'.a)) :
               /\ mem'[x].st = "unmapped"
               /\ Cardinality({i \in DOMAIN last'.rel : last'.rel[i][1] = x}) = 1]_vars

\* C5: a Free right after a Free of the same arena, and a Free of an arena that was
\* never used, do not fault.
C5_FreeAgain ==
    [][(last'.op = "free" /\ nops' = nops + 1 /\ fault = "none"
          /\ ((last.op = "free" /\ last.a = last'.a) \/ hist[last'.a] = "new"))
         => fault' = "none"]_vars

\* C6: after a successful CropAndCoalesce on an arena whose used size U is positive,
\* GetUsedSize returns U.
C6_UsedSizeKept ==
    [][(last'.op = "coalesce" /\ fault' = "none" /\ last'.ptr # NullPtr
          /\ GetUsedSize(mem, arena, last'.a) > 0)
         => GetUsedSize(mem', arena', last'.a) = GetUsedSize(mem, arena, last'.a)]_vars

\* the payloads of a log, one after the other
RECURSIVE Payloads(_)
Payloads(lg) == IF lg = << >> THEN << >>
                ELSE Run(Head(lg).len, Head(lg).val) \o Payloads(Tail(lg))
\* the entries of a log whose chunk is the k-th of the chain
InChunk(lg, k) == SelectSeq(lg, LAMBDA e : e.pos = k)
\* the payloads of a log chunk by chunk, from the head of the chain to its tail
RECURSIVE ByChunk(_, _)
ByChunk(lg, k) == IF k > MaxChunks THEN << >>
                  ELSE Payloads(InChunk(lg, k)) \o ByChunk(lg, k + 1)

\* the last call coalesced an arena that byte-aligned pushes had filled from empty
Coalesced == fault = "none" /\ last.op = "coalesce" /\ last.ptr # NullPtr
             /\ hist[last.a] = "coalesced"
\* the buffer CropAndCoalesce returned, as long as the payloads pushed
Buffer == RunSlice(mem[last.ptr[1]].bytes, last.ptr[2], RunLen(Payloads(log[last.a])))

\* C7 (as stated): the coalesced buffer holds the pushed payloads in the order in
\* which they were pushed, also when a later payload was placed in an earlier chunk.
C7_PushOrder == Coalesced => Buffer = RunNorm(Payloads(log[last.a]))

\* C7 (amended): the coalesced buffer holds the payloads chunk by chunk from the head
\* of the chain to its tail, and in push order within a chunk.
C7_ChainOrder == Coalesced => Buffer = RunNorm(ByChunk(log[last.a], 1))

\* an arena of several chunks was coalesced after a payload went into an earlier chunk
\* than the payload pushed before it
C7_Witness ==
    /\ Coalesced
    /\ \E i \in DOMAIN log[last.a] : \E j \in DOMAIN log[last.a] :
          i < j /\ log[last.a][i].pos > log[last.a][j].pos

\* the bytes of a region that lie in the mapping of its chunk
Stored(e) == RunSlice(mem[e.ptr[1]].bytes, e.ptr[2], e.len)
\* two regions of one arena have a byte in common
Overlap(e, f) == /\ e.ptr[1] = f.ptr[1]
                 /\ e.ptr[2] < f.ptr[2] + f.len
                 /\ f.ptr[2] < e.ptr[2] + e.len

\* C8: after successful Push and Allocate calls only, every pushed payload reads back
\* from the address Push returned, and no two returned regions overlap.
C8_ReadBack ==
    \A a \in Arenas :
        (fault = "none" /\ hist[a] \in {"push", "grow"}) =>
            /\ \A i \in DOMAIN log[a] :
                  log[a][i].val # 0 =>
                      /\ mem[log[a][i].ptr[1]].st = "mapped"
                      /\ Stored(log[a][i]) = Run(RunLen(Stored(log[a][i])), log[a][i].val)
            /\ \A i \in DOMAIN log[a] : \A j \in DOMAIN log[a] :
                  i < j => ~Overlap(log[a][i], log[a][j])

\* C9: after a Copy whose acquisitions all succeed, the destination chain has as many
\* chunks as the source chain, chunk i has the size, the offset and the bytes
\* [0, offset) of source chunk i, the destination tail is the last chunk, and the
\* source is unchanged.
C9_CopyMatches ==
    [][(/\ last'.op = "copy" /\ fault' = "none"
        /\ ChainOf(mem, arena, last'.b) # << >>
        /\ Intact(mem, arena, last'.b)
        /\ Len(last'.acq) = Len(ChainOf(mem, arena, last'.b)))
         => /\ Len(ChainOf(mem', arena', last'.a)) = Len(ChainOf(mem, arena, last'.b))
            /\ \A i \in DOMAIN ChainOf(mem, arena, last'.b) :
                  /\ mem'[ChainOf(mem', arena', last'.a)[i]].st = "mapped"
                  /\ mem'[ChainOf(mem', arena', last'.a)[i]].hdr = "ok"
                  /\ mem'[ChainOf(mem', arena', last'.a)[i]].ch_size
                        = mem[ChainOf(mem, arena, last'.b)[i]].ch_size
                  /\ mem'[ChainOf(mem', arena', last'.a)[i]].ch_offset
                        = mem[ChainOf(mem, arena, last'.b)[i]].ch_offset
                  /\ RunSlice(mem'[ChainOf(mem', arena', last'.a)[i]].bytes, 0,
                              mem[ChainOf(mem, arena, last'.b)[i]].ch_offset)
                        = RunSlice(mem[ChainOf(mem, arena, last'.b)[i]].bytes, 0,
                                   mem[ChainOf(mem, arena, last'.b)[i]].ch_offset)
            /\ arena'[last'.a].ar_tail
                  = ChainOf(mem', arena', last'.a)[Len(ChainOf(mem', arena', last'.a))]
            /\ arena'[last'.b] = arena[last'.b]
            /\ \A x \in Range(ChainOf(mem, arena, last'.b)) : mem'[x] = mem[x]]_vars

\* C10: no chunk is reachable from the chains of both arenas, and a call on one arena
\* changes no chunk of the other arena's chain.
C10_NoSharing ==
    [][/\ Range(ChainOf(mem', arena', 1)) \cap Range(ChainOf(mem', arena', 2)) = {}
       /\ \A b \in Arenas :
             (last'.op \in {"alloc", "push", "reset", "clear", "coalesce", "free"}
                /\ nops' = nops + 1 /\ last'.a # b)
               => \A x \in Range(ChainOf(mem, arena, b)) : mem'[x] = mem[x]]_vars

\* the arena has no chunks: head and tail are both absent
Empty(ar, a) == ar[a].ar_head = NULL /\ ar[a].ar_tail = NULL

\* C11: when the system refuses a chunk during Copy, at the first destination chunk or
\* at a later one, Copy returns without faulting, every chunk it acquired has been
\* released, and the destination has neither head nor tail.
C11_CopyFailsClean ==
    [][(/\ last'.op = "copy" /\ nops' = nops + 1 /\ last'.ref
        /\ Intact(mem, arena, last'.b))
         => /\ fault' = "none"
            /\ \A x \in Range(last'.acq) : mem'[x].st = "unmapped"
            /\ Empty(arena', last'.a)]_vars

\* C12: a Copy from a source that has no chunks leaves the destination empty, whatever
\* the destination held before: GetUsedSize(destination) = 0 afterwards.
C12_CopyOfEmpty ==
    [][(/\ last'.op = "copy" /\ nops' = nops + 1 /\ fault' = "none"
        /\ Empty(arena, last'.b))
         => GetUsedSize(mem', arena', last'.a) = 0]_vars

\* the bytes [0, n) of a chunk's data are all zero
Zeroed(c, n) == RunSlice(c.bytes, 0, n) = Run(n, 0)
\* the bytes in use in a chunk hold something other than zeroes
Written(c) == c.st = "mapped" /\ c.hdr = "ok" /\ c.ch_offset > 0
              /\ ~Zeroed(c, c.ch_offset)

\* C13: after Clear, every chunk of the arena has offset 0 and reads as zero over its
\* whole capacity [0, size), and the chain is otherwise as it was: the same chunks in
\* the same order with the same sizes, none acquired and none released.
C13_ClearZeroes ==
    [][(last'.op = "clear" /\ nops' = nops + 1 /\ fault' = "none")
         => /\ arena' = arena
            /\ ChainOf(mem', arena', last'.a) = ChainOf(mem, arena, last'.a)
            /\ last'.acq = << >> /\ last'.rel = << >>
            /\ \A x \in Slots : mem'[x].st = mem[x].st
            /\ \A x \in Range(ChainOf(mem, arena, last'.a)) :
                  /\ mem'[x].ch_offset = 0
                  /\ mem'[x].ch_size = mem[x].ch_size
                  /\ mem'[x].ch_next = mem[x].ch_next
                  /\ Zeroed(mem'[x], mem'[x].ch_size)
            /\ GetUsedSize(mem', arena', last'.a) = 0]_vars

\* an arena of two chunks was cleared, and the copy made of it before still holds the
\* payload that the cleared arena held
C13_Witness ==
    /\ fault = "none" /\ last.op = "clear"
    /\ Len(Chain(last.a)) = 2
    /\ \E b \in Arenas \ {last.a} :
          /\ Len(Chain(b)) = 2
          /\ \E x \in Range(Chain(b)) : Written(mem[x])
          /\ Range(Chain(b)) \cap Range(Chain(last.a)) = {}

\* C14: Reset sets the offset of every chunk of the arena to 0 and changes nothing
\* else: head, tail, the order of the chunks, every size and every data byte stay as
\* they were, and no chunk is acquired or released.
C14_ResetOnlyOffsets ==
    [][(last'.op = "reset" /\ nops' = nops + 1 /\ fault' = "none")
         => /\ arena' = arena
            /\ ChainOf(mem', arena', last'.a) = ChainOf(mem, arena, last'.a)
            /\ last'.acq = << >> /\ last'.rel = << >>
            /\ hwm' = hwm
            /\ \A x \in Range(ChainOf(mem, arena, last'.a)) :
                  mem'[x] = [mem[x] EXCEPT !.ch_offset = 0]
            /\ \A x \in Slots \ Range(ChainOf(mem, arena, last'.a)) :
                  mem'[x] = mem[x]]_vars

\* an arena that held a payload was reset: the payload is still in the chunk, below
\* an offset of 0
C14_Witness ==
    /\ fault = "none" /\ last.op = "reset"
    /\ \E x \in Range(Chain(last.a)) :
          /\ mem[x].st = "mapped" /\ mem[x].hdr = "ok"
          /\ mem[x].ch_offset = 0
          /\ ~Zeroed(mem[x], mem[x].ch_size)

\* C15: when an arena built from empty by successful Allocate calls is reset and the
\* same calls are made again in the same order, each of them succeeds and acquires no
\* chunk.
C15_ReplayReuses ==
    [][(/\ last'.op = "alloc" /\ nops' = nops + 1
        /\ Again(last'.a, last'.n, last'.al))
         => /\ fault' = "none"
            /\ last'.ptr # NullPtr
            /\ last'.acq = << >>]_vars

\* the call changed nothing of the heap: no mapping, no header, no byte, no arena
Untouched == mem' = mem /\ arena' = arena /\ hwm' = hwm
             /\ last'.acq = << >> /\ last'.rel = << >>

\* C16: Allocate with a size of 0, an alignment of 0 or an alignment that is not a
\* power of two returns failure and changes nothing: no chunk is acquired and no
\* offset moves, whatever state the arena is in.
C16_InvalidRefused ==
    [][(/\ last'.op = "alloc" /\ nops' = nops + 1 /\ last'.a # NULL
        /\ (last'.n = 0 \/ last'.al = 0 \/ ~OneBit(last'.al)))
         => /\ fault' = "none"
            /\ last'.ptr = NullPtr
            /\ Untouched]_vars

\* an allocation with an alignment that is not a power of two was refused by an arena
\* that holds chunks with room for it
C16_Witness ==
    /\ fault = "none" /\ last.op = "alloc" /\ last.a # NULL
    /\ last.n > 0 /\ last.al > 0 /\ ~OneBit(last.al)
    /\ last.ptr = NullPtr
    /\ Chain(last.a) # << >> /\ Intact(mem, arena, last.a)
    /\ \E x \in Range(Chain(last.a)) : mem[x].ch_size - mem[x].ch_offset > 2 * last.al

\* C17: Allocate with a negative size and a power-of-two alignment returns failure and
\* leaves the chain and every offset as they were, on empty and non-empty arenas.
C17_NegativeRefused ==
    [][(/\ last'.op = "alloc" /\ nops' = nops + 1 /\ last'.a # NULL
        /\ last'.n < 0 /\ OneBit(last'.al))
         => /\ fault' = "none"
            /\ last'.ptr = NullPtr
            /\ Untouched]_vars

\* the offsets of the chunks of a chain, added up
RECURSIVE SumOffsets(_, _)
SumOffsets(m, chain) == IF chain = << >> THEN 0
                        ELSE m[Head(chain)].ch_offset + SumOffsets(m, Tail(chain))
\* the sizes asked for in the calls of a log, added up
RECURSIVE Requested(_)
Requested(lg) == IF lg = << >> THEN 0 ELSE Head(lg).len + Requested(Tail(lg))
\* no other arena reaches a chunk of this arena's chain
Private(a) == \A b \in Arenas \ {a} : Range(Chain(a)) \cap Range(Chain(b)) = {}

\* C18: GetUsedSize is the sum of the offsets of the chunks of the chain, and 0 for an
\* arena without chunks and for an absent arena; after successful allocations only,
\* made on an arena that started empty, it is at least the sum of the sizes asked for.
C18_UsedSize ==
    /\ arena_get_size(Enter(mem, arena, hwm), NULL).ret = 0
    /\ \A a \in Arenas :
          (fault = "none" /\ Intact(mem, arena, a)) =>
              /\ arena_get_size(Enter(mem, arena, hwm), a).s.fault = "none"
              /\ GetUsedSize(mem, arena, a) = SumOffsets(mem, Chain(a))
              /\ (arena[a].ar_head = NULL => GetUsedSize(mem, arena, a) = 0)
              /\ (hist[a] \in {"push", "grow"} /\ Private(a))
                    => GetUsedSize(mem, arena, a) >= Requested(log[a])

\* three allocations were served from two chunks, and alignment made them use more
\* bytes than were asked for
C18_Witness ==
    \E a \in Arenas :
        /\ fault = "none" /\ hist[a] = "grow" /\ Private(a)
        /\ Len(log[a]) = 3
        /\ Len(Chain(a)) = 2
        /\ \A x \in Range(Chain(a)) : mem[x].ch_offset > 0
        /\ GetUsedSize(mem, arena, a) > Requested(log[a])

\* the chunks of a chain are all different
NoRepeat(chain) == \A i \in DOMAIN chain : \A j \in DOMAIN chain :
                       chain[i] = chain[j] => i = j

\* C19: in every reachable state, also after Free, after CropAndCoalesce and after a
\* Copy that failed, each arena has a head iff it has a tail; when it has them, the
\* tail is the last chunk reached from the head, the tail has no next chunk, and the
\* chain does not loop.
C19_ArenaInvariant ==
    fault = "none" =>
        \A a \in Arenas :
            /\ (arena[a].ar_head = NULL) <=> (arena[a].ar_tail = NULL)
            /\ arena[a].ar_head # NULL =>
                  /\ Intact(mem, arena, a)
                  /\ Chain(a)[Len(Chain(a))] = arena[a].ar_tail
                  /\ mem[arena[a].ar_tail].ch_next = NULL
                  /\ NoRepeat(Chain(a))

\* C20: Push without an arena or without a buffer returns failure and changes nothing:
\* no chunk acquired, the chain and the offsets as before; and a Push whose
\* allocation fails returns failure without writing a byte.
C20_PushRefused ==
    [][/\ (last'.op = "push" /\ nops' = nops + 1 /\ (last'.a = NULL \/ ~last'.buf))
          => (fault' = "none" /\ last'.ptr = NullPtr /\ Untouched)
       /\ (last'.op = "push" /\ nops' = nops + 1 /\ fault' = "none"
             /\ last'.ptr = NullPtr)
          => \A x \in Slots : mem'[x].bytes = mem[x].bytes]_vars

\* a Push without a buffer was refused by an arena that holds a payload and has room
C20_Witness ==
    /\ fault = "none" /\ last.op = "push" /\ ~last.buf
    /\ last.a # NULL /\ last.n > 0 /\ OneBit(last.al)
    /\ last.ptr = NullPtr
    /\ Chain(last.a) # << >> /\ Intact(mem, arena, last.a)
    /\ \E x \in Range(Chain(last.a)) :
          Written(mem[x]) /\ mem[x].ch_size - mem[x].ch_offset > 2 * last.al


\* the last call was alloc_chunk and returned a chunk
Acquired == fault = "none" /\ last.op = "acquire" /\ last.ptr # NullPtr

\* C21: a successful Acquire(size, flags) returns a chunk whose size field is the size
\* asked for, whose offset is 0 and which has no next chunk; with ZEROMEM every byte
\* of [0, size) of its data reads as zero.
C21_AcquireFresh ==
    Acquired =>
        /\ mem[last.ptr[1]].st = "mapped" /\ mem[last.ptr[1]].hdr = "ok"
        /\ last.acq = <<last.ptr[1]>>
        /\ mem[last.ptr[1]].ch_size = last.n
        /\ mem[last.ptr[1]].ch_offset = 0
        /\ mem[last.ptr[1]].ch_next = NULL
        /\ HasFlag(last.fl, ZEROMEM) => Zeroed(mem[last.ptr[1]], last.n)

\* a chunk of the default size was acquired with ZEROMEM while another chunk is held
C21_Witness ==
    /\ Acquired
    /\ HasFlag(last.fl, ZEROMEM)
    /\ last.n = DEFAULT_CHUNK_SIZE
    /\ \E x \in Slots \ {last.ptr[1]} : mem[x].st = "mapped"


\* C22: Acquire returns failure and maps nothing for every size that is not above 0
\* (zero and negative alike) and for every size for which the header size plus the
\* size does not fit the signed size type.
C22_BadSizeRefused ==
    (last.op = "acquire" /\ (last.n <= 0 \/ last.n > PTRDIFF_MAX - HeaderSize))
        => /\ fault = "none"
           /\ last.ptr = NullPtr
           /\ last.acq = << >>

\* C23: when the system fails to provide the memory during Acquire, Acquire aborts the
\* process if SOFTFAIL is not set and returns failure if it is set: no failure of the
\* system gives a failure value without SOFTFAIL, and none aborts with SOFTFAIL.
C23_OsFailure ==
    (last.op = "acquire" /\ last.n > 0 /\ last.n <= PTRDIFF_MAX - HeaderSize) =>
        /\ last.ref => (fault = "none" /\ last.ptr = NullPtr /\ HasFlag(last.fl, SOFTFAIL))
        /\ fault = "abort" => ~HasFlag(last.fl, SOFTFAIL)

Fits(m, x, alignment, alloc_size) ==
    LET misalignment == (DataAddr(x) + m[x].ch_offset) % alignment
        offset == IF misalignment # 0
                  THEN m[x].ch_offset + (alignment - misalignment)
                  ELSE m[x].ch_offset
    IN  m[x].ch_size - offset >= alloc_size
\* the position of the first chunk of a chain that has room (0: none has)
FirstFit(m, chain, alignment, alloc_size) ==
    IF \E i \in DOMAIN chain : Fits(m, chain[i], alignment, alloc_size)
    THEN CHOOSE i \in DOMAIN chain :
            /\ Fits(m, chain[i], alignment, alloc_size)
            /\ \A j \in 1..(i - 1) : ~Fits(m, chain[j], alignment, alloc_size)
    ELSE 0
\* the step is an Allocate that returned an address
AllocateStep == /\ last'.op = "alloc" /\ nops' = nops + 1
                /\ fault' = "none" /\ last'.ptr # NullPtr

\* C25: Allocate is first-fit from the head: a successful call is served by the first
\* chunk, in head-to-tail order, that has room for the reservation after padding, and
\* a chunk is acquired only when no chunk of the chain has; after Reset or Clear an
\* earlier chunk with room is used before the arena grows.
C25_FirstFit ==
    [][(AllocateStep /\ Intact(mem, arena, last'.a))
         => IF FirstFit(mem, ChainOf(mem, arena, last'.a), last'.al,
                        ROUND_UP(last'.n, last'.al)) # 0
            THEN /\ last'.acq = << >>
                 /\ last'.ptr[1] =
                       ChainOf(mem, arena, last'.a)[
                           FirstFit(mem, ChainOf(mem, arena, last'.a), last'.al,
                                    ROUND_UP(last'.n, last'.al))]
            ELSE /\ last'.acq # << >>
                 /\ last'.ptr[1] \in Range(last'.acq)]_vars

\* an arena of two chunks was reset and the next allocation was served from its head,
\* with the tail chunk left empty
C25_Witness ==
    /\ Allocated /\ last.op = "alloc"
    /\ last.acq = << >>
    /\ Len(Chain(last.a)) = 2 /\ Intact(mem, arena, last.a)
    /\ last.ptr[1] = arena[last.a].ar_head
    /\ mem[arena[last.a].ar_tail].ch_offset = 0


\* C26: a successful Allocate changes the offset of exactly one chunk, the one that
\* serves the request; the offsets of the chunks scanned before it, which could not
\* fit the request, are unchanged.
C26_OneOffsetMoves ==
    [][(AllocateStep /\ Intact(mem, arena, last'.a))
         => \A x \in Range(ChainOf(mem, arena, last'.a)) \ {last'.ptr[1]} :
               mem'[x].ch_offset = mem[x].ch_offset]_vars

\* C27: when Allocate returns failure because the acquisition of a chunk failed under
\* SOFTFAIL, the arena is as it was before the call: the same chunks, every offset
\* unchanged, no chunk newly linked; also when the call started on an empty arena.
C27_FailedAllocateClean ==
    [][(/\ last'.op = "alloc" /\ nops' = nops + 1 /\ fault' = "none"
        /\ last'.ptr = NullPtr /\ last'.ref
        /\ Intact(mem, arena, last'.a))
         => /\ arena'[last'.a] = arena[last'.a]
            /\ ChainOf(mem', arena', last'.a) = ChainOf(mem, arena, last'.a)
            /\ \A x \in Range(ChainOf(mem, arena, last'.a)) :
                  mem'[x].ch_offset = mem[x].ch_offset]_vars

\* C28: when no chunk of the chain fits, the chunk that is acquired has a size of at
\* least twice the reservation, also for reservations above half the default
\* granularity.
C28_GrowsByTwice ==
    [][(/\ AllocateStep /\ Intact(mem, arena, last'.a)
        /\ ChainOf(mem, arena, last'.a) # << >>
        /\ last'.acq # << >>)
         => mem'[last'.acq[1]].ch_size >= 2 * ROUND_UP(last'.n, last'.al)]_vars

\* C29: on an empty arena Allocate acquires an initial chunk whose size is the
\* reservation rounded up to the next multiple of the default granularity (a positive
\* multiple, at least the reservation) and makes it head and tail before it scans.
C29_InitialChunk ==
    [][(/\ last'.op = "alloc" /\ nops' = nops + 1 /\ fault' = "none"
        /\ Empty(arena, last'.a)
        /\ last'.acq # << >>)
         => /\ mem'[last'.acq[1]].ch_size
                  = ROUND_UP(ROUND_UP(last'.n, last'.al), DEFAULT_CHUNK_SIZE)
            /\ mem'[last'.acq[1]].ch_size >= ROUND_UP(last'.n, last'.al)
            /\ mem'[last'.acq[1]].ch_size > 0
            /\ mem'[last'.acq[1]].ch_size % DEFAULT_CHUNK_SIZE = 0
            /\ arena'[last'.a].ar_head = last'.acq[1]
            /\ Len(last'.acq) = 1 => arena'[last'.a].ar_tail = last'.acq[1]]_vars

\* an allocation of more than the default chunk size was made on an empty arena, and
\* the initial chunk has twice the default size
C29_Witness ==
    /\ Allocated /\ last.op = "alloc"
    /\ Len(last.acq) = 1
    /\ last.n > DEFAULT_CHUNK_SIZE /\ last.n < 2 * DEFAULT_CHUNK_SIZE
    /\ arena[last.a].ar_head = last.acq[1] /\ arena[last.a].ar_tail = last.acq[1]
    /\ mem[last.acq[1]].ch_size = 2 * DEFAULT_CHUNK_SIZE

\* C30: the first successful Allocate on an empty arena acquires exactly one chunk and
\* is served from it: the chain has one chunk and the region lies in the head chunk,
\* for every valid size and alignment.
C30_FirstAllocate ==
    [][(AllocateStep /\ Empty(arena, last'.a))
         => /\ Len(last'.acq) = 1
            /\ Len(ChainOf(mem', arena', last'.a)) = 1
            /\ last'.ptr[1] = arena'[last'.a].ar_head
            /\ last'.ptr[2] + ROUND_UP(last'.n, last'.al)
                  <= mem'[last'.ptr[1]].ch_size]_vars


\* the bytes in use of the chunks of a chain, one chunk after the other
RECURSIVE Prefixes(_, _)
Prefixes(m, chain) ==
    IF chain = << >> THEN << >>
    ELSE RunSlice(m[Head(chain)].bytes, 0, m[Head(chain)].ch_offset)
             \o Prefixes(m, Tail(chain))
\* the step is a CropAndCoalesce that returned an address
CoalesceStep == /\ last'.op = "coalesce" /\ nops' = nops + 1
                /\ fault' = "none" /\ last'.ptr # NullPtr

\* C31: after a successful CropAndCoalesce on an arena with used size U > 0, head and
\* tail are one newly acquired chunk of size exactly U with no next chunk; every chunk
\* of the old chain has been released exactly once; the address returned is the start
\* of the new chunk's data; and the first U bytes of the new chunk are the bytes in
\* use [0, offset) of the old chunks, in the order of the chain.
C31_CoalesceReplaces ==
    [][(/\ CoalesceStep
        /\ Intact(mem, arena, last'.a)
        /\ GetUsedSize(mem, arena, last'.a) > 0)
         => /\ last'.acq = <<last'.ptr[1]>>
            /\ mem[last'.ptr[1]].st = "unmapped"
            /\ arena'[last'.a] = [ar_head |-> last'.ptr[1], ar_tail |-> last'.ptr[1]]
            /\ mem'[last'.ptr[1]].st = "mapped"
            /\ mem'[last'.ptr[1]].ch_size = GetUsedSize(mem, arena, last'.a)
            /\ mem'[last'.ptr[1]].ch_next = NULL
            /\ last'.ptr[2] = 0
            /\ \A x \in Range(ChainOf(mem, arena, last'.a)) :
                  /\ mem'[x].st = "unmapped"
                  /\ Cardinality({i \in DOMAIN last'.rel : last'.rel[i][1] = x}) = 1
            /\ (\A x \in Range(ChainOf(mem, arena, last'.a)) :
                   mem[x].ch_offset <= Cap(mem[x]))
                  => RunSlice(mem'[last'.ptr[1]].bytes, 0,
                              GetUsedSize(mem, arena, last'.a))
                        = RunNorm(Prefixes(mem, ChainOf(mem, arena, last'.a)))]_vars

\* an arena of two chunks that both hold a payload was coalesced into one chunk
C31_Witness ==
    /\ fault = "none" /\ last.op = "coalesce" /\ last.ptr # NullPtr
    /\ Len(last.rel) = 2
    /\ arena[last.a].ar_head = last.ptr[1]
    /\ Len(mem[last.ptr[1]].bytes) >= 2
    /\ mem[last.ptr[1]].bytes[1][2] # 0 /\ mem[last.ptr[1]].bytes[2][2] # 0


\* C32: CropAndCoalesce on an arena whose used size is 0, an arena without chunks or
\* one whose chunks all have offset 0 after Reset or Clear, returns failure and
\* leaves the arena as it was: no chunk is acquired, released or relinked.
C32_CoalesceOfNothing ==
    [][(/\ last'.op = "coalesce" /\ nops' = nops + 1 /\ last'.a # NULL
        /\ Intact(mem, arena, last'.a)
        /\ GetUsedSize(mem, arena, last'.a) = 0)
         => /\ fault' = "none"
            /\ last'.ptr = NullPtr
            /\ Untouched]_vars

\* CropAndCoalesce failed on an arena of two chunks whose offsets are all 0, and the
\* chunks are still those of the arena
C32_Witness ==
    /\ fault = "none" /\ last.op = "coalesce" /\ last.ptr = NullPtr
    /\ Len(Chain(last.a)) = 2 /\ Intact(mem, arena, last.a)
    /\ \A x \in Range(Chain(last.a)) : mem[x].ch_offset = 0
    /\ Chain(last.a)[2] = arena[last.a].ar_tail


\* C33: every release of a chunk, by Free with or without ZEROMEM, by CropAndCoalesce
\* or by the cleanup of a failed Copy, unmaps the length that was mapped when the
\* chunk was acquired; the recorded size is not altered between the acquisition and
\* the unmap that uses it.
C33_ReleaseWhole ==
    [][(nops' = nops + 1 /\ fault' = "none")
         => /\ \A i \in DOMAIN last'.rel :
                  mem[last'.rel[i][1]].st = "mapped"
                      => last'.rel[i][2] = mem[last'.rel[i][1]].maplen
            /\ \A x \in Slots : mem'[x].st # "partial"]_vars

\* a chunk pointer that is absent or designates a mapping that is alive
Live(m, ch) == ch = NULL \/ (ch \in Slots /\ m[ch].st = "mapped")

\* C34: in every reachable state no arena references a released chunk: head, tail and
\* every next reference reachable from head designate chunks that are still mapped,
\* or none; after Free the arena has neither head nor tail.
C34_NoReleasedChunk ==
    fault = "none" =>
        /\ \A a \in Arenas :
              /\ Live(mem, arena[a].ar_head)
              /\ Live(mem, arena[a].ar_tail)
              /\ \A x \in Range(Chain(a)) : Live(mem, x) /\ Live(mem, mem[x].ch_next)
        /\ last.op = "free" => Empty(arena, last.a)

\* every mapping is a chunk of the chain of some arena
Reachable(m, ar) ==
    \A x \in Slots :
        m[x].st # "unmapped" => \E a \in Arenas : x \in Range(ChainOf(m, ar, a))

\* C35: no operation leaks a chunk: in every reachable state each chunk that was
\* acquired and not released is reachable from the chain of some arena, also after a
\* Copy onto a destination that already holds chunks.
C35_NoLeak ==
    [][(nops' = nops + 1 /\ fault' = "none" /\ Reachable(mem, arena))
         => Reachable(mem', arena')]_vars

====
